---- MODULE Spec2Model ----
(***************************************************************************)
(* Model of importer_app/static/js/mapping_data.js: the mapping-rule       *)
(* editor.  The in-memory rule collection (allRules), the two tables of    *)
(* materialized rows, the delete-target marker and the calls in flight to  *)
(* the Mapping Rules API are the state; each window.* function of the      *)
(* file is an operator (when it only computes) or an action (when it       *)
(* changes the page or talks to the API).                                  *)
(*                                                                         *)
(* Strings are TLA+ strings.  JavaScript null is the string `null`         *)
(* below; identifiers are modelled by their String() form, which is how    *)
(* the file compares them everywhere.                                      *)
(***************************************************************************)
EXTENDS Integers, Sequences, FiniteSets, TLC

VARIABLES
    allRules,          \* let allRules: the records of the last successful GET
    newRuleCounter,    \* let newRuleCounter
    ruleToDeleteId,    \* let ruleToDeleteId: the delete-target marker
    baseRows,          \* <tbody id="base-rules-body">: sequence of rows
    additionalRows,    \* <tbody id="additional-rules-body">: sequence of rows
    superAdmin,        \* <input id="chk-super-admin">.checked
    modalOpen,         \* #modal-confirm-delete is displayed
    messages,          \* every showMessage call, newest first
    gets,              \* GET calls of fetchRules in flight
    batches,           \* the saveAllChanges invocations and their calls
    deletes,           \* deleteRule invocations awaiting their DELETE
    issued,            \* external calls issued so far, per HTTP method
    userEvents,        \* user events handled so far
    call               \* last function application (SpecUnit only)

vars == <<allRules, newRuleCounter, ruleToDeleteId, baseRows, additionalRows,
          superAdmin, modalOpen, messages, gets, batches, deletes, issued,
          userEvents, call>>

pageVars == <<allRules, newRuleCounter, ruleToDeleteId, baseRows,
              additionalRows, superAdmin, modalOpen, messages, gets, batches,
              deletes, issued, userEvents>>

-----------------------------------------------------------------------------
(* Bounds of the model. *)

\* user events (clicks, edits, page load) in one behaviour
MaxUserEvents == 3
\* longest rule collection the functions are applied to one by one
MaxRules == 3

-----------------------------------------------------------------------------
(* JavaScript values and string helpers. *)

null == "<null>"

\* JS truthiness of a string-or-null value
Truthy(v) == v # null /\ v # ""

\* a || b
OrElse(a, b) == IF Truthy(a) THEN a ELSE b

\* String.prototype.includes
StrIncludes(s, needle) ==
    \E i \in 1..(Len(s) - Len(needle) + 1) :
        SubSeq(s, i, i + Len(needle) - 1) = needle

\* String.prototype.startsWith
startsWith(s, prefix) ==
    Len(s) >= Len(prefix) /\ SubSeq(s, 1, Len(prefix)) = prefix

\* Array.prototype.includes
ArrIncludes(arr, v) == \E i \in DOMAIN arr : arr[i] = v

\* String.prototype.split(',')
RECURSIVE split(_)
split(s) ==
    LET commas == {i \in 1..Len(s) : SubSeq(s, i, i) = ","}
    IN  IF commas = {} THEN <<s>>
        ELSE LET c == CHOOSE i \in commas : \A j \in commas : i <= j
             IN  <<SubSeq(s, 1, c - 1)>> \o split(SubSeq(s, c + 1, Len(s)))

\* Array.prototype.join(',')
RECURSIVE join(_)
join(arr) ==
    IF arr = <<>> THEN ""
    ELSE IF Len(arr) = 1 THEN arr[1]
    ELSE arr[1] \o "," \o join(Tail(arr))

\* String.prototype.toLowerCase on the values of the source-type options
toLowerCase(v) ==
    CASE v = "CSV"           -> "csv"
      [] v = "CSV Formula"   -> "csv formula"
      [] v = "Text Override" -> "text override"
      [] v = "Link"          -> "link"
      [] OTHER               -> v

\* arr.find(p), given the indices of the elements that satisfy p: the index
\* of the first of them, 0 when there is none (find returns that element, or
\* undefined)
find(hits) ==
    IF hits = {} THEN 0 ELSE CHOOSE i \in hits : \A j \in hits : i <= j

-----------------------------------------------------------------------------
(* Constants of the file. *)

ALL_ROLES == <<"header", "item", "line", "account", "ignore">>
ALL_SOURCE_TYPES == <<"CSV", "CSV Formula", "Text Override", "Link">>

\* the option values of ROLE_DESTINATION_FIELDS
ROLE_DESTINATION_FIELDS ==
    [header  |-> <<"id", "supplier_id", "invoice_number", "invoice_date",
                   "due_date", "total_amount", "tax_amount",
                   "account_number_id", "notes">>,
     item    |-> <<"id", "supplier_id", "billing_reference",
                   "account_number_id", "audit_date", "contract_start_date",
                   "contract_end_date", "contract_term_in_months",
                   "review_flag", "notes">>,
     line    |-> <<"id", "invoice_header_id", "item_id", "unique_reference",
                   "description", "quantity", "unit_price", "total_amount",
                   "start_date", "end_date">>,
     account |-> <<"id", "account_number", "supplier_id">>,
     ignore  |-> <<"">>]

FIELD_ROLE_ORDER ==
    [header |-> 1, item |-> 2, line |-> 3, account |-> 4, ignore |-> 5]

\* FIELD_ROLE_ORDER[role] || 99
UNKNOWN_ROLE_ORDER == 99
roleOrder(role) ==
    IF role \in DOMAIN FIELD_ROLE_ORDER THEN FIELD_ROLE_ORDER[role]
    ELSE UNKNOWN_ROLE_ORDER

\* const tableMap of getRulePayload: tableMap[role] || null
tableMap(role) ==
    CASE role = "header"  -> "supplier_invoice_headers"
      [] role = "item"    -> "supplier_invoice_items"
      [] role = "line"    -> "supplier_invoice_lines"
      [] role = "account" -> "supplier_account"
      [] OTHER            -> null

\* const tableMap of createRuleRow: tableMap[table], `null` for undefined
roleOfTable(table) ==
    CASE table = "supplier_invoice_headers" -> "header"
      [] table = "supplier_invoice_items"   -> "item"
      [] table = "supplier_invoice_lines"   -> "line"
      [] table = "supplier_account"         -> "account"
      [] OTHER                              -> null

-----------------------------------------------------------------------------
(* The widgets of a row. *)

\* the value an omitted argument has
undefined == "<undefined>"

\* populateSelect on a single <select>: the value the select shows afterwards.
\* The option whose String(value) equals String(selectedValues) is selected;
\* when none is, the browser selects the first option, and an empty select
\* has the value "".  An omitted argument takes the default [] and String([])
\* is "".
singleSelectValue(options, selectedValues) ==
    LET wanted == IF selectedValues = undefined THEN "" ELSE selectedValues
    IN  IF ArrIncludes(options, wanted) THEN wanted
        ELSE IF options # <<>> THEN options[1]
        ELSE ""

\* populateSelect on a <select multiple>: the selected option values, in
\* option order
multiSelectValues(options, selectedValues) ==
    SelectSeq(options, LAMBDA o : ArrIncludes(selectedValues, o))

\* populateDestinationFields: the options and the value of the select
populateDestinationFields(fieldRole, currentDestinationField) ==
    LET fields == IF fieldRole \in DOMAIN ROLE_DESTINATION_FIELDS
                  THEN ROLE_DESTINATION_FIELDS[fieldRole] ELSE <<>>
    IN  [options |-> fields,
         value   |-> singleSelectValue(fields, currentDestinationField)]

\* a variant of isLinkable that forgets the source kinds of the candidate
isLinkableWhateverItsKinds(r, currentRowId) == r.id # currentRowId

\* r => !isSelf && isNotLinkSource of populateLinkSourceDropdown
isLinkable(r, currentRowId) ==
    LET isSelf == r.id = currentRowId
        isNotLinkSource == ~(Truthy(r.source_type_options)
                             /\ StrIncludes(r.source_type_options, "Link"))
    IN  ~isSelf /\ isNotLinkSource

\* a variant of populateLinkSourceDropdown that lists the candidates from the
\* last rule of the collection to the first
populateLinkSourceDropdownLastFirst(rules, selectedSourceTypes, currentLinkedRuleId, currentRowId) ==
    IF ArrIncludes(selectedSourceTypes, "link")
    THEN LET linkableRules ==
                 SelectSeq(rules, LAMBDA r : isLinkable(r, currentRowId))
             n == Len(linkableRules)
             options == [i \in DOMAIN linkableRules |-> linkableRules[n + 1 - i].id]
         IN  [options |-> options,
              value   |-> singleSelectValue(options, currentLinkedRuleId)]
    ELSE [options |-> <<>>, value |-> ""]

\* populateLinkSourceDropdown: the selectable options (rule ids) and the value
\* of the link picker.  populateSelect empties the select first, so the
\* "-- Select Linked Rule --" placeholder does not survive it; the disabled
\* "No available rules" option cannot be selected and is not listed.
populateLinkSourceDropdown(rules, selectedSourceTypes, currentLinkedRuleId, currentRowId) ==
    IF ArrIncludes(selectedSourceTypes, "link")
    THEN LET linkableRules ==
                 SelectSeq(rules, LAMBDA r : isLinkable(r, currentRowId))
             options == [i \in DOMAIN linkableRules |-> linkableRules[i].id]
         IN  [options |-> options,
              value   |-> singleSelectValue(options, currentLinkedRuleId)]
    ELSE [options |-> <<>>, value |-> ""]

\* a variant of displayBranch that tests the kinds in the order of
\* ALL_SOURCE_TYPES
displayBranchInListOrder(selectedSourceTypes) ==
    IF ArrIncludes(selectedSourceTypes, "csv") THEN "CSV Column"
    ELSE IF ArrIncludes(selectedSourceTypes, "csv formula") THEN "formula-input"
    ELSE IF ArrIncludes(selectedSourceTypes, "text override")
         THEN "text-override-input"
    ELSE IF ArrIncludes(selectedSourceTypes, "link") THEN "link-source-select"
    ELSE "-"

\* the branch updateSourceDetailsDisplay takes: the class (or the text) of
\* what it puts into the dynamic-source-input-container
displayBranch(selectedSourceTypes) ==
    IF ArrIncludes(selectedSourceTypes, "link") THEN "link-source-select"
    ELSE IF ArrIncludes(selectedSourceTypes, "csv formula") THEN "formula-input"
    ELSE IF ArrIncludes(selectedSourceTypes, "text override")
         THEN "text-override-input"
    ELSE IF ArrIncludes(selectedSourceTypes, "csv") THEN "CSV Column"
    ELSE "-"

\* updateSourceDetailsDisplay: the auxiliary editor it builds from the
\* selected options of the source-type select.  (The formula-builder select
\* beside the textarea only appends placeholders to it and is left out.)
updateSourceDetailsDisplay(rules, selectedOptions, currentFormulaValue, currentLinkedRuleId, currentRowId) ==
    LET selectedSourceTypes ==
            [i \in DOMAIN selectedOptions |-> toLowerCase(selectedOptions[i])]
        branch == displayBranch(selectedSourceTypes)
    IN  IF branch = "link-source-select"
        THEN LET dd == populateLinkSourceDropdown(rules, selectedSourceTypes,
                           currentLinkedRuleId, currentRowId)
             IN  [kind |-> branch, options |-> dd.options, value |-> dd.value]
        ELSE IF branch \in {"formula-input", "text-override-input"}
        THEN [kind |-> branch, options |-> <<>>,
              value |-> OrElse(currentFormulaValue, "")]
        ELSE [kind |-> branch, options |-> <<>>, value |-> ""]

\* the pointer getRulePayload emits for the rule chosen in the link picker
forwardLookup(rules, linkValue) ==
    LET i == find({j \in DOMAIN rules : rules[j].id = linkValue})
    IN  IF Truthy(linkValue) /\ i # 0
        THEN [table |-> tableMap(rules[i].field_role),
              field |-> rules[i].destination_field]
        ELSE [table |-> null, field |-> null]

\* a variant of auxiliaryFields that reads each editor it finds in the row,
\* whatever the branch
auxiliaryFieldsOfAnyEditor(rules, row, sourceTypeOptions) ==
    LET none == [link_table_lookup |-> null, link_field_lookup |-> null,
                 formula_template |-> null, static_value |-> null]
        p == forwardLookup(rules, row.editor.value)
    IN  IF row.editor.kind = "link-source-select"
        THEN [none EXCEPT !.link_table_lookup = p.table,
                          !.link_field_lookup = p.field]
        ELSE IF row.editor.kind = "formula-input"
        THEN [none EXCEPT !.formula_template = OrElse(row.editor.value, null)]
        ELSE IF row.editor.kind = "text-override-input"
        THEN [none EXCEPT !.static_value = OrElse(row.editor.value, null)]
        ELSE none

\* a variant of auxiliaryFields that tests the kinds in the order CSV
\* Formula, Text Override, Link
auxiliaryFieldsFormulaFirst(rules, row, sourceTypeOptions) ==
    LET none == [link_table_lookup |-> null, link_field_lookup |-> null,
                 formula_template |-> null, static_value |-> null]
    IN  IF StrIncludes(sourceTypeOptions, "CSV Formula")
        THEN IF row.editor.kind = "formula-input"
             THEN [none EXCEPT !.formula_template = OrElse(row.editor.value, null)]
             ELSE none
        ELSE IF StrIncludes(sourceTypeOptions, "Text Override")
        THEN IF row.editor.kind = "text-override-input"
             THEN [none EXCEPT !.static_value = OrElse(row.editor.value, null)]
             ELSE none
        ELSE IF StrIncludes(sourceTypeOptions, "Link")
        THEN IF row.editor.kind = "link-source-select"
             THEN LET p == forwardLookup(rules, row.editor.value)
                  IN  [none EXCEPT !.link_table_lookup = p.table,
                                   !.link_field_lookup = p.field]
             ELSE none
        ELSE none

\* the auxiliary fields of getRulePayload (lines 106-124)
auxiliaryFields(rules, row, sourceTypeOptions) ==
    LET none == [link_table_lookup |-> null, link_field_lookup |-> null,
                 formula_template |-> null, static_value |-> null]
    IN  IF StrIncludes(sourceTypeOptions, "Link")
        THEN IF row.editor.kind = "link-source-select"
             THEN LET p == forwardLookup(rules, row.editor.value)
                  IN  [none EXCEPT !.link_table_lookup = p.table,
                                   !.link_field_lookup = p.field]
             ELSE none
        ELSE IF StrIncludes(sourceTypeOptions, "CSV Formula")
        THEN IF row.editor.kind = "formula-input"
             THEN [none EXCEPT !.formula_template = OrElse(row.editor.value, null)]
             ELSE none
        ELSE IF StrIncludes(sourceTypeOptions, "Text Override")
        THEN IF row.editor.kind = "text-override-input"
             THEN [none EXCEPT !.static_value = OrElse(row.editor.value, null)]
             ELSE none
        ELSE none

\* a variant of payloadIsRequired that sends the checkbox as it is
payloadIsRequiredAsChecked(isBaseRule, isRequiredChecked) == isRequiredChecked

\* is_required of the payload (line 133)
payloadIsRequired(isBaseRule, isRequiredChecked) ==
    isBaseRule \/ isRequiredChecked

\* a variant of payloadId that sends the id of the row as it is
payloadIdAsStored(datasetId) == datasetId

\* id of the payload (line 127)
payloadId(datasetId) ==
    IF Truthy(datasetId) /\ ~startsWith(datasetId, "new_") THEN datasetId
    ELSE null

getRulePayload(rules, row) ==
    LET isBaseRule == row.is_base_rule
        sourceTypeOptions == join(row.source_type_options)
        aux == auxiliaryFields(rules, row, sourceTypeOptions)
    IN  [id                     |-> payloadId(row.id),
         rule_name              |-> row.rule_name,
         field_role             |-> row.field_role,
         destination_field      |-> row.destination_field,
         source_type_options    |-> sourceTypeOptions,
         rule_type              |-> "user_set",
         is_required            |-> payloadIsRequired(isBaseRule, row.is_required),
         is_hidden              |-> row.is_hidden,
         is_base_rule           |-> isBaseRule,
         link_table_lookup      |-> aux.link_table_lookup,
         link_field_lookup      |-> aux.link_field_lookup,
         formula_template       |-> aux.formula_template,
         static_value           |-> aux.static_value,
         default_transformation |-> OrElse(row.default_transformation, null)]

\* the reverse lookup of createRuleRow (lines 173-178): the id of the first
\* rule the stored pointer designates, null when there is none
reverseLookup(rules, linkTableLookup, linkFieldLookup) ==
    IF Truthy(linkTableLookup) /\ Truthy(linkFieldLookup)
    THEN LET i == find({j \in DOMAIN rules :
                            /\ roleOfTable(linkTableLookup) = rules[j].field_role
                            /\ rules[j].destination_field = linkFieldLookup})
         IN  IF i # 0 THEN rules[i].id ELSE null
    ELSE null

\* createRuleRow(rule, isBase): the <tr> it returns
createRuleRow(rules, rule, isBase) ==
    LET selectedSourceTypesArray ==
            IF Truthy(rule.source_type_options)
            THEN split(rule.source_type_options) ELSE <<>>
        dest == populateDestinationFields(rule.field_role, rule.destination_field)
        selected == multiSelectValues(ALL_SOURCE_TYPES, selectedSourceTypesArray)
        currentLinkedRuleId ==
            reverseLookup(rules, rule.link_table_lookup, rule.link_field_lookup)
    IN  [id                     |-> rule.id,
         rule_name              |-> OrElse(rule.rule_name, ""),
         field_role             |-> singleSelectValue(ALL_ROLES, rule.field_role),
         destination_field      |-> dest.value,
         destination_options    |-> dest.options,
         source_type_options    |-> selected,
         editor                 |->
             updateSourceDetailsDisplay(rules, selected,
                 OrElse(rule.formula_template, rule.static_value),
                 currentLinkedRuleId, rule.id),
         default_transformation |-> OrElse(rule.default_transformation, ""),
         is_required            |-> isBase \/ rule.is_required,
         is_hidden              |-> rule.is_hidden,
         is_base_rule           |-> rule.is_base_rule,
         disabled               |-> [is_base_rule |-> FALSE,
                                     is_required  |-> isBase,
                                     other        |-> FALSE,
                                     editor       |-> FALSE]]

-----------------------------------------------------------------------------
(* Rendering. *)

\* the collation of the rule names of the model: a.localeCompare(b) is
\* negative, zero or positive as a comes before, with or after b
Collation == <<"", "A", "B", "C">>
localeCompare(a, b) ==
    find({i \in DOMAIN Collation : Collation[i] = a})
    - find({i \in DOMAIN Collation : Collation[i] = b})

\* a variant of compareRules that compares the roles only
compareRulesByRole(a, b) == roleOrder(a.field_role) - roleOrder(b.field_role)

\* the comparator of renderRules (line 218); d || e is e when d is 0
compareRules(a, b) ==
    LET d == roleOrder(a.field_role) - roleOrder(b.field_role)
    IN  IF d # 0 THEN d ELSE localeCompare(a.rule_name, b.rule_name)

\* Array.prototype.sort with compareRules: stable, so the outcome is the one
\* of inserting each element behind everything that is not greater
RECURSIVE sortRules(_)
sortRules(rules) ==
    IF rules = <<>> THEN <<>>
    ELSE LET n == Len(rules)
             front == sortRules(SubSeq(rules, 1, n - 1))
             x == rules[n]
             k == Cardinality({i \in DOMAIN front : compareRules(front[i], x) <= 0})
         IN  SubSeq(front, 1, k) \o <<x>> \o SubSeq(front, k + 1, Len(front))

\* a variant of fieldDisabled without the case of is_required
fieldDisabledWithoutPin(field, isBaseRow, isOverrideActive) ==
    IF field = "is_base_rule" THEN ~isOverrideActive
    ELSE isBaseRow /\ ~isOverrideActive

\* el.disabled as toggleBaseRuleEditability sets it (lines 341-347);
\* field is the data-field of the element, "other" for every other one
fieldDisabled(field, isBaseRow, isOverrideActive) ==
    IF field = "is_base_rule" THEN ~isOverrideActive
    ELSE IF field = "is_required" THEN isBaseRow
    ELSE isBaseRow /\ ~isOverrideActive

\* toggleBaseRuleEditability on the rows of one table body
toggleBaseRuleEditability(rows, isBaseRow, isOverrideActive) ==
    [i \in DOMAIN rows |->
        [rows[i] EXCEPT !.disabled =
            [is_base_rule |-> fieldDisabled("is_base_rule", isBaseRow, isOverrideActive),
             is_required  |-> fieldDisabled("is_required", isBaseRow, isOverrideActive),
             other        |-> fieldDisabled("other", isBaseRow, isOverrideActive),
             editor       |-> fieldDisabled("other", isBaseRow, isOverrideActive)]]]

\* a variant of renderRules that does not empty the two table bodies
renderRulesKeepingRows(rules, isOverrideActive) ==
    LET sorted == sortRules(rules)
        rowOf(rule) == createRuleRow(sorted, rule, rule.is_base_rule)
        base == SelectSeq(sorted, LAMBDA r : r.is_base_rule)
        additional == SelectSeq(sorted, LAMBDA r : ~r.is_base_rule)
    IN  [rules |-> sorted,
         baseRows |-> toggleBaseRuleEditability(
                          baseRows \o [i \in DOMAIN base |-> rowOf(base[i])],
                          TRUE, isOverrideActive),
         additionalRows |-> toggleBaseRuleEditability(
                          additionalRows
                              \o [i \in DOMAIN additional |-> rowOf(additional[i])],
                          FALSE, isOverrideActive)]

\* renderRules(rules): the sorted collection and the two table bodies
renderRules(rules, isOverrideActive) ==
    LET sorted == sortRules(rules)
        rowOf(rule) == createRuleRow(sorted, rule, rule.is_base_rule)
        base == SelectSeq(sorted, LAMBDA r : r.is_base_rule)
        additional == SelectSeq(sorted, LAMBDA r : ~r.is_base_rule)
    IN  [rules |-> sorted,
         baseRows |-> toggleBaseRuleEditability(
                          [i \in DOMAIN base |-> rowOf(base[i])],
                          TRUE, isOverrideActive),
         additionalRows |-> toggleBaseRuleEditability(
                          [i \in DOMAIN additional |-> rowOf(additional[i])],
                          FALSE, isOverrideActive)]

-----------------------------------------------------------------------------
(* The Mapping Rules API, as far as the page sees it. *)

Rule(id, name, role, dest, kinds, isBase, isRequired, linkTable, linkField, formula, static) ==
    [id |-> id, rule_name |-> name, field_role |-> role,
     destination_field |-> dest, source_type_options |-> kinds,
     is_required |-> isRequired, is_hidden |-> FALSE, is_base_rule |-> isBase,
     link_table_lookup |-> linkTable, link_field_lookup |-> linkField,
     formula_template |-> formula, static_value |-> static,
     default_transformation |-> null]

\* the persisted rules of the model: an additional rule and a base rule that
\* links to it
LineRule ==
    Rule("1", "B", "line", "id", "CSV", FALSE, FALSE, null, null, null, null)
HeaderRule ==
    Rule("2", "A", "header", "id", "CSV,Link", TRUE, FALSE,
         "supplier_invoice_lines", "id", null, null)

\* the bodies of a successful GET in the model: no rule, or the two rules,
\* the one that sorts last first
Responses == {<<>>, <<LineRule, HeaderRule>>}

\* how an external call fails: a non-2xx response whose body carries a
\* message or none, or a rejected fetch, which takes the same catch block
\* with the message of its own error
Failures ==
    {[kind |-> "status", message |-> "denied"],
     [kind |-> "status", message |-> null],
     [kind |-> "rejected", message |-> "Failed to fetch"]}

\* how the save of a row fails in the model
SaveFailures == {[kind |-> "status", message |-> null]}

\* a variant of errorMessage that never reads the body of the response
errorMessageGeneric(failure, generic) == generic

\* error.message in the catch block:
\* (await response.json()).message || generic, or the rejection's own message
errorMessage(failure, generic) ==
    IF failure.kind = "status" THEN OrElse(failure.message, generic)
    ELSE failure.message

-----------------------------------------------------------------------------
(* The state after DOMContentLoaded. *)

Init ==
    /\ allRules = <<>>
    /\ newRuleCounter = 0
    /\ ruleToDeleteId = null
    /\ baseRows = <<>>
    /\ additionalRows = <<>>
    /\ superAdmin = FALSE
    /\ modalOpen = FALSE
    /\ messages = <<>>
    /\ gets = 0
    /\ batches = <<>>
    /\ deletes = <<>>
    /\ issued = [GET |-> 0, POST |-> 0, PUT |-> 0, DELETE |-> 0]
    /\ userEvents = 0
    /\ call = [fn |-> "none"]

\* showMessage(message, type): the alert is prepended to the page container
showMessage(log, message, type) == <<[type |-> type, text |-> message]>> \o log

\* [...base-rules-body tr, ...additional-rules-body tr]
allRows == baseRows \o additionalRows

\* a user event is handled
UserEvent ==
    /\ userEvents < MaxUserEvents
    /\ userEvents' = userEvents + 1

\* the rows of the page are replaced or removed: the rows a pending save
\* still refers to are no longer the ones on the page
detach(bs, ids) ==
    [b \in DOMAIN bs |->
        [bs[b] EXCEPT !.calls =
            [i \in DOMAIN bs[b].calls |->
                IF bs[b].calls[i].rowId \in ids
                THEN [bs[b].calls[i] EXCEPT !.attached = FALSE]
                ELSE bs[b].calls[i]]]]

rowIds(rows) == {rows[i].id : i \in DOMAIN rows}

-----------------------------------------------------------------------------
(* fetchRules *)

\* fetchRules() up to its first await: the GET is issued
fetchRules ==
    /\ UserEvent
    /\ gets' = gets + 1
    /\ issued' = [issued EXCEPT !.GET = @ + 1]
    /\ UNCHANGED <<allRules, newRuleCounter, ruleToDeleteId, baseRows,
                   additionalRows, superAdmin, modalOpen, messages, batches,
                   deletes, call>>

\* a variant of fetchRulesOkWith that keeps the rules the answer does not
\* replace
fetchRulesOkMerging(response) ==
    /\ gets > 0
    /\ LET kept == SelectSeq(allRules,
                       LAMBDA o : \A i \in DOMAIN response : response[i].id # o.id)
           r == renderRules(response \o kept, superAdmin)
       IN  /\ allRules' = r.rules
           /\ baseRows' = r.baseRows
           /\ additionalRows' = r.additionalRows
    /\ gets' = gets - 1
    /\ batches' = detach(batches, rowIds(allRows))
    /\ UNCHANGED <<newRuleCounter, ruleToDeleteId, superAdmin, modalOpen,
                   messages, deletes, issued, userEvents, call>>

\* the GET answers 2xx with the given body:
\* allRules = await response.json(); renderRules(allRules)
fetchRulesOkWith(response) ==
    /\ gets > 0
    /\ LET r == renderRules(response, superAdmin)
       IN  /\ allRules' = r.rules
           /\ baseRows' = r.baseRows
           /\ additionalRows' = r.additionalRows
    /\ gets' = gets - 1
    /\ batches' = detach(batches, rowIds(allRows))
    /\ UNCHANGED <<newRuleCounter, ruleToDeleteId, superAdmin, modalOpen,
                   messages, deletes, issued, userEvents, call>>

\* the GET answers 2xx
fetchRulesOk == \E response \in Responses : fetchRulesOkWith(response)

\* the GET fails in the given way: the catch block shows the error
fetchRulesFailWith(failure) ==
    /\ gets > 0
    /\ messages' = showMessage(messages,
           "Error: " \o errorMessage(failure, "Failed to fetch rules"), "error")
    /\ gets' = gets - 1
    /\ UNCHANGED <<allRules, newRuleCounter, ruleToDeleteId, baseRows,
                   additionalRows, superAdmin, modalOpen, batches, deletes,
                   issued, userEvents, call>>

\* the GET fails
fetchRulesFail == \E failure \in Failures : fetchRulesFailWith(failure)

-----------------------------------------------------------------------------
(* Rows on the page. *)

Tables == {"base", "additional"}
rowsOf(tbl) == IF tbl = "base" THEN baseRows ELSE additionalRows

\* the row at place i of a table body is replaced by row
setRow(tbl, i, row) ==
    IF tbl = "base"
    THEN /\ baseRows' = [baseRows EXCEPT ![i] = row]
         /\ UNCHANGED additionalRows
    ELSE /\ additionalRows' = [additionalRows EXCEPT ![i] = row]
         /\ UNCHANGED baseRows

\* handleSourceChange of a row: the auxiliary editor is rebuilt from the
\* payload of the row as it stands; the new elements are enabled
handleSourceChange(rules, row) ==
    LET currentRuleData == getRulePayload(rules, row)
        sameLink(r) ==
            /\ r.link_table_lookup = currentRuleData.link_table_lookup
            /\ r.link_field_lookup = currentRuleData.link_field_lookup
        i == find({j \in DOMAIN rules : sameLink(rules[j])})
        currentLinkedRuleId ==
            IF /\ Truthy(currentRuleData.link_table_lookup)
               /\ Truthy(currentRuleData.link_field_lookup)
            THEN IF i # 0 THEN rules[i].id ELSE undefined
            ELSE null
    IN  [row EXCEPT
            !.editor = updateSourceDetailsDisplay(rules,
                           row.source_type_options,
                           OrElse(currentRuleData.formula_template,
                                  currentRuleData.static_value),
                           currentLinkedRuleId, row.id),
            !.disabled.editor = FALSE]

\* what the operator picks or types in the model
EditRoles == {"ignore"}
EditDestinations == {"total_amount"}
EditSourceTypes == {<<"CSV", "Link">>, <<"CSV Formula", "Text Override">>}
EditTexts == {"{A}"}
EditNames == {"B"}
SourceTypeSelections ==
    {SelectSeq(ALL_SOURCE_TYPES, LAMBDA t : t \in picked) :
        picked \in SUBSET {ALL_SOURCE_TYPES[i] : i \in DOMAIN ALL_SOURCE_TYPES}}

\* change of the field_role select (lines 198-201)
changeFieldRole(tbl, i) ==
    /\ UserEvent
    /\ ~rowsOf(tbl)[i].disabled.other
    /\ \E role \in EditRoles \ {rowsOf(tbl)[i].field_role} :
          LET row == rowsOf(tbl)[i]
              dest == populateDestinationFields(role, null)
          IN  setRow(tbl, i, handleSourceChange(allRules,
                                 [row EXCEPT !.field_role = role,
                                             !.destination_field = dest.value,
                                             !.destination_options = dest.options]))
    /\ UNCHANGED <<allRules, newRuleCounter, ruleToDeleteId, superAdmin,
                   modalOpen, messages, gets, batches, deletes, issued, call>>

\* change of the destination_field select (line 202)
changeDestinationField(tbl, i) ==
    /\ UserEvent
    /\ ~rowsOf(tbl)[i].disabled.other
    /\ \E d \in EditDestinations \ {rowsOf(tbl)[i].destination_field} :
          /\ ArrIncludes(rowsOf(tbl)[i].destination_options, d)
          /\ setRow(tbl, i, handleSourceChange(allRules,
                                [rowsOf(tbl)[i] EXCEPT !.destination_field = d]))
    /\ UNCHANGED <<allRules, newRuleCounter, ruleToDeleteId, superAdmin,
                   modalOpen, messages, gets, batches, deletes, issued, call>>

\* change of the source_type_options select (line 203)
changeSourceTypes(tbl, i) ==
    /\ UserEvent
    /\ ~rowsOf(tbl)[i].disabled.other
    /\ \E sel \in EditSourceTypes \ {rowsOf(tbl)[i].source_type_options} :
          setRow(tbl, i, handleSourceChange(allRules,
                             [rowsOf(tbl)[i] EXCEPT !.source_type_options = sel]))
    /\ UNCHANGED <<allRules, newRuleCounter, ruleToDeleteId, superAdmin,
                   modalOpen, messages, gets, batches, deletes, issued, call>>

\* the operator picks a rule in the link picker (no handler is attached)
selectLinkedRule(tbl, i) ==
    /\ UserEvent
    /\ rowsOf(tbl)[i].editor.kind = "link-source-select"
    /\ ~rowsOf(tbl)[i].disabled.editor
    /\ \E k \in DOMAIN rowsOf(tbl)[i].editor.options :
          /\ rowsOf(tbl)[i].editor.options[k] # rowsOf(tbl)[i].editor.value
          /\ setRow(tbl, i, [rowsOf(tbl)[i] EXCEPT
                                !.editor.value = rowsOf(tbl)[i].editor.options[k]])
    /\ UNCHANGED <<allRules, newRuleCounter, ruleToDeleteId, superAdmin,
                   modalOpen, messages, gets, batches, deletes, issued, call>>

\* the operator types into the formula textarea or the static text input
typeAuxiliaryText(tbl, i) ==
    /\ UserEvent
    /\ rowsOf(tbl)[i].editor.kind \in {"formula-input", "text-override-input"}
    /\ ~rowsOf(tbl)[i].disabled.editor
    /\ \E t \in EditTexts \ {rowsOf(tbl)[i].editor.value} :
          setRow(tbl, i, [rowsOf(tbl)[i] EXCEPT !.editor.value = t])
    /\ UNCHANGED <<allRules, newRuleCounter, ruleToDeleteId, superAdmin,
                   modalOpen, messages, gets, batches, deletes, issued, call>>

\* the operator clicks the is_required or the is_base_rule checkbox
clickCheckbox(tbl, i) ==
    /\ UserEvent
    /\ \/ /\ ~rowsOf(tbl)[i].disabled.is_required
          /\ setRow(tbl, i, [rowsOf(tbl)[i] EXCEPT !.is_required = ~@])
       \/ /\ ~rowsOf(tbl)[i].disabled.is_base_rule
          /\ setRow(tbl, i, [rowsOf(tbl)[i] EXCEPT !.is_base_rule = ~@])
    /\ UNCHANGED <<allRules, newRuleCounter, ruleToDeleteId, superAdmin,
                   modalOpen, messages, gets, batches, deletes, issued, call>>

\* the operator types a rule name; a pending save of the row reads the name
\* from the same input when it fails
typeRuleName(tbl, i) ==
    /\ UserEvent
    /\ ~rowsOf(tbl)[i].disabled.other
    /\ \E name \in EditNames \ {rowsOf(tbl)[i].rule_name} :
          /\ setRow(tbl, i, [rowsOf(tbl)[i] EXCEPT !.rule_name = name])
          /\ batches' =
                [b \in DOMAIN batches |->
                    [batches[b] EXCEPT !.calls =
                        [c \in DOMAIN batches[b].calls |->
                            IF /\ batches[b].calls[c].attached
                               /\ batches[b].calls[c].rowId = rowsOf(tbl)[i].id
                            THEN [batches[b].calls[c] EXCEPT !.rowName = name]
                            ELSE batches[b].calls[c]]]]
    /\ UNCHANGED <<allRules, newRuleCounter, ruleToDeleteId, superAdmin,
                   modalOpen, messages, gets, deletes, issued, call>>

\* the privileged-override checkbox is clicked; its listener re-applies the
\* editability of every row
toggleSuperAdmin ==
    /\ UserEvent
    /\ superAdmin' = ~superAdmin
    /\ baseRows' = toggleBaseRuleEditability(baseRows, TRUE, superAdmin')
    /\ additionalRows' = toggleBaseRuleEditability(additionalRows, FALSE, superAdmin')
    /\ UNCHANGED <<allRules, newRuleCounter, ruleToDeleteId, modalOpen,
                   messages, gets, batches, deletes, issued, call>>

-----------------------------------------------------------------------------
(* addRow *)

\* the newRule literal of addRow (line 271); its missing fields read as null
newRule(counter, isBase) ==
    [id |-> "new_" \o ToString(counter), rule_name |-> "", field_role |-> "",
     destination_field |-> "", source_type_options |-> "",
     is_required |-> isBase, is_hidden |-> FALSE, is_base_rule |-> isBase,
     link_table_lookup |-> null, link_field_lookup |-> null,
     formula_template |-> null, static_value |-> null,
     default_transformation |-> null]

addRow(isBase) ==
    /\ UserEvent
    /\ newRuleCounter' = newRuleCounter + 1
    /\ LET newRow == createRuleRow(allRules, newRule(newRuleCounter', isBase), isBase)
       IN  /\ baseRows' = toggleBaseRuleEditability(
                  IF isBase THEN Append(baseRows, newRow) ELSE baseRows,
                  TRUE, superAdmin)
           /\ additionalRows' = toggleBaseRuleEditability(
                  IF isBase THEN additionalRows ELSE Append(additionalRows, newRow),
                  FALSE, superAdmin)
    /\ UNCHANGED <<allRules, ruleToDeleteId, superAdmin, modalOpen, messages,
                   gets, batches, deletes, issued, call>>

-----------------------------------------------------------------------------
(* deleteRule and the confirmation dialog *)

\* a variant of hideConfirmationModal that leaves the delete target set
hideConfirmationModalKeepingTarget ==
    /\ modalOpen' = FALSE
    /\ UNCHANGED ruleToDeleteId

\* hideConfirmationModal
hideConfirmationModal ==
    /\ modalOpen' = FALSE
    /\ ruleToDeleteId' = null

\* click on the Delete button of a row (lines 205-208)
clickDelete(tbl, i) ==
    /\ UserEvent
    /\ ~rowsOf(tbl)[i].disabled.other
    /\ ruleToDeleteId' = rowsOf(tbl)[i].id
    /\ modalOpen' = TRUE
    /\ UNCHANGED <<allRules, newRuleCounter, baseRows, additionalRows,
                   superAdmin, messages, gets, batches, deletes, issued, call>>

\* the dialog is dismissed
cancelDelete ==
    /\ UserEvent
    /\ modalOpen
    /\ hideConfirmationModal
    /\ UNCHANGED <<allRules, newRuleCounter, baseRows, additionalRows,
                   superAdmin, messages, gets, batches, deletes, issued, call>>

\* document.querySelector(`tr[data-id=...]`)?.remove()
removeRow(rows, id) == SelectSeq(rows, LAMBDA r : r.id # id)

\* a variant of deleteRule without the case of the unsaved rule
deleteRuleAlwaysRemote ==
    /\ UserEvent
    /\ IF ~Truthy(ruleToDeleteId)
       THEN UNCHANGED <<deletes, issued>>
       ELSE /\ deletes' = Append(deletes, [id |-> ruleToDeleteId])
            /\ issued' = [issued EXCEPT !.DELETE = @ + 1]
    /\ UNCHANGED <<ruleToDeleteId, modalOpen, baseRows, additionalRows,
                   messages, batches, allRules, newRuleCounter, superAdmin,
                   gets, call>>

\* deleteRule() up to its first await or its return
deleteRule ==
    /\ UserEvent
    /\ IF ~Truthy(ruleToDeleteId)
       THEN UNCHANGED <<ruleToDeleteId, modalOpen, baseRows, additionalRows,
                        messages, batches, deletes, issued>>
       ELSE IF startsWith(ruleToDeleteId, "new_")
       THEN /\ baseRows' = removeRow(baseRows, ruleToDeleteId)
            /\ additionalRows' = removeRow(additionalRows, ruleToDeleteId)
            /\ messages' = showMessage(messages, "New unsaved rule removed.", "success")
            /\ batches' = detach(batches, {ruleToDeleteId})
            /\ hideConfirmationModal
            /\ UNCHANGED <<deletes, issued>>
       ELSE /\ deletes' = Append(deletes, [id |-> ruleToDeleteId])
            /\ issued' = [issued EXCEPT !.DELETE = @ + 1]
            /\ UNCHANGED <<ruleToDeleteId, modalOpen, baseRows, additionalRows,
                           messages, batches>>
    /\ UNCHANGED <<allRules, newRuleCounter, superAdmin, gets, call>>

dropAt(seq, k) == SubSeq(seq, 1, k - 1) \o SubSeq(seq, k + 1, Len(seq))

\* the DELETE answers 2xx: message, fetchRules(), hideConfirmationModal()
deleteRuleOk(k) ==
    /\ deletes' = dropAt(deletes, k)
    /\ messages' = showMessage(messages, "Rule deleted successfully!", "success")
    /\ gets' = gets + 1
    /\ issued' = [issued EXCEPT !.GET = @ + 1]
    /\ hideConfirmationModal
    /\ UNCHANGED <<allRules, newRuleCounter, baseRows, additionalRows,
                   superAdmin, batches, userEvents, call>>

\* the DELETE fails: the catch block shows the error, then
\* hideConfirmationModal()
deleteRuleFailWith(k, failure) ==
    /\ deletes' = dropAt(deletes, k)
    /\ messages' = showMessage(messages,
           "Error: " \o errorMessage(failure, "Failed to delete rule"), "error")
    /\ hideConfirmationModal
    /\ UNCHANGED <<allRules, newRuleCounter, baseRows, additionalRows,
                   superAdmin, gets, batches, issued, userEvents, call>>

deleteRuleFail(k) == \E failure \in Failures : deleteRuleFailWith(k, failure)

-----------------------------------------------------------------------------
(* saveAllChanges *)

API_BASE_URL == "/admin/mapping_rules/api/metadata"

\* the call saveAllChanges issues for one row (lines 251-258), with the row
\* its closure keeps: the row's name is read again when the call fails
saveCall(rules, row) ==
    LET payload == getRulePayload(rules, row)
    IN  [method   |-> IF Truthy(payload.id) THEN "PUT" ELSE "POST",
         url      |-> IF Truthy(payload.id)
                      THEN API_BASE_URL \o "/" \o payload.id ELSE API_BASE_URL,
         payload  |-> payload,
         rowId    |-> row.id,
         rowName  |-> row.rule_name,
         attached |-> TRUE,
         status   |-> "pending"]

settled(calls) == \A c \in DOMAIN calls : calls[c].status # "pending"
countOf(calls, status) == Cardinality({c \in DOMAIN calls : calls[c].status = status})

\* after await Promise.all(promises): the success message (line 266)
reportSuccess(log, successCount) ==
    IF successCount > 0
    THEN showMessage(log, "Successfully saved " \o ToString(successCount)
                          \o " rule(s).", "success")
    ELSE log

\* a finished invocation: its closure is gone, the outcome of each call is
\* kept for the record
finished(batch) ==
    [batch EXCEPT !.done = TRUE,
                  !.calls = [c \in DOMAIN batch.calls |->
                                [method |-> batch.calls[c].method,
                                 status |-> batch.calls[c].status,
                                 rowId |-> null, attached |-> FALSE]]]

\* a variant of afterSettle that fetches again only when a call succeeded
afterSettleRefetchOnSuccess(batch, log) ==
    IF settled(batch.calls)
    THEN /\ batches' = [batches EXCEPT ![batch.n] = finished(batch)]
         /\ messages' = reportSuccess(log, batch.successCount)
         /\ gets' = IF batch.successCount > 0 THEN gets + 1 ELSE gets
         /\ issued' = [issued EXCEPT
                          !.GET = IF batch.successCount > 0 THEN @ + 1 ELSE @]
    ELSE /\ batches' = [batches EXCEPT ![batch.n] = batch]
         /\ messages' = log
         /\ UNCHANGED <<gets, issued>>

\* the continuation of saveAllChanges runs in the step that settles the last
\* call: the success message, then fetchRules()
afterSettle(batch, log) ==
    IF settled(batch.calls)
    THEN /\ batches' = [batches EXCEPT ![batch.n] = finished(batch)]
         /\ messages' = reportSuccess(log, batch.successCount)
         /\ gets' = gets + 1
         /\ issued' = [issued EXCEPT !.GET = @ + 1]
    ELSE /\ batches' = [batches EXCEPT ![batch.n] = batch]
         /\ messages' = log
         /\ UNCHANGED <<gets, issued>>

\* saveAllChanges() up to await Promise.all: one call per row is issued
saveAllChanges ==
    /\ UserEvent
    /\ LET calls == [i \in DOMAIN allRows |-> saveCall(allRules, allRows[i])]
           n == Len(batches) + 1
           batch == [n |-> n, calls |-> calls, successCount |-> 0, done |-> FALSE]
           posts == Cardinality({i \in DOMAIN calls : calls[i].method = "POST"})
       IN  /\ batches' = Append(batches, IF calls = <<>> THEN finished(batch) ELSE batch)
           /\ issued' = [issued EXCEPT
                            !.POST = @ + posts,
                            !.PUT = @ + Len(calls) - posts,
                            !.GET = IF calls = <<>> THEN @ + 1 ELSE @]
           /\ gets' = IF calls = <<>> THEN gets + 1 ELSE gets
    /\ UNCHANGED <<allRules, newRuleCounter, ruleToDeleteId, baseRows,
                   additionalRows, superAdmin, modalOpen, messages, deletes, call>>

\* the call of one row answers 2xx: successCount++
saveCallOk(b, c) ==
    /\ batches[b].calls[c].status = "pending"
    /\ afterSettle([batches[b] EXCEPT !.calls[c].status = "ok",
                                      !.successCount = @ + 1],
                   messages)
    /\ UNCHANGED <<allRules, newRuleCounter, ruleToDeleteId, baseRows,
                   additionalRows, superAdmin, modalOpen, deletes, userEvents,
                   call>>

\* a variant of saveCallFail in which the first failure ends the wait of
\* saveAllChanges, as a Promise.all of rejecting promises would
saveCallFailFast(b, c) ==
    /\ batches[b].calls[c].status = "pending"
    /\ batches' = [batches EXCEPT
                      ![b] = finished([batches[b] EXCEPT !.calls[c].status = "failed"])]
    /\ messages' = reportSuccess(
           showMessage(messages,
               "Error saving \"" \o batches[b].calls[c].rowName \o "\": "
               \o "Failed to save rule: " \o batches[b].calls[c].payload.rule_name,
               "error"),
           batches[b].successCount)
    /\ gets' = gets + 1
    /\ issued' = [issued EXCEPT !.GET = @ + 1]
    /\ UNCHANGED <<allRules, newRuleCounter, ruleToDeleteId, baseRows,
                   additionalRows, superAdmin, modalOpen, deletes, userEvents,
                   call>>

\* the call of one row fails: the catch block names the row (line 262)
saveCallFail(b, c) ==
    /\ batches[b].calls[c].status = "pending"
    /\ \E failure \in SaveFailures :
          afterSettle([batches[b] EXCEPT !.calls[c].status = "failed"],
              showMessage(messages,
                  "Error saving \"" \o batches[b].calls[c].rowName \o "\": "
                  \o errorMessage(failure,
                         "Failed to save rule: "
                         \o batches[b].calls[c].payload.rule_name),
                  "error"))
    /\ UNCHANGED <<allRules, newRuleCounter, ruleToDeleteId, baseRows,
                   additionalRows, superAdmin, modalOpen, deletes, userEvents,
                   call>>

-----------------------------------------------------------------------------

Next ==
    \/ fetchRules
    \/ fetchRulesOk
    \/ fetchRulesFail
    \/ \E tbl \in Tables : \E i \in DOMAIN rowsOf(tbl) :
          \/ changeFieldRole(tbl, i)
          \/ changeDestinationField(tbl, i)
          \/ changeSourceTypes(tbl, i)
          \/ selectLinkedRule(tbl, i)
          \/ typeAuxiliaryText(tbl, i)
          \/ clickCheckbox(tbl, i)
          \/ typeRuleName(tbl, i)
          \/ clickDelete(tbl, i)
    \/ toggleSuperAdmin
    \/ \E isBase \in BOOLEAN : addRow(isBase)
    \/ cancelDelete
    \/ deleteRule
    \/ \E k \in DOMAIN deletes : deleteRuleOk(k) \/ deleteRuleFail(k)
    \/ saveAllChanges
    \/ \E b \in DOMAIN batches : \E c \in DOMAIN batches[b].calls :
          saveCallOk(b, c) \/ saveCallFail(b, c)

Spec == Init /\ [][Next]_vars

-----------------------------------------------------------------------------
(* The functions of the file applied one by one: each action applies one   *)
(* function to inputs drawn from the sets below and records the result.    *)

\* a persisted rule of which only some fields matter to the function applied
UnitRule(id, name, role, dest, kinds) ==
    Rule(id, name, role, dest, kinds, FALSE, FALSE, null, null, null, null)

\* the roles a persisted record may carry: the five of ALL_ROLES and one the
\* page does not know
UnitRoles == {"header", "item", "line", "account", "ignore", "legacy"}

\* the lists of at most MaxRules choices, one for each rule of a collection
ListsOf(Choices) == UNION {[1..n -> Choices] : n \in 0..MaxRules}

\* pairs of role and destination field of records: a destination the select
\* of the role offers (the only one of "ignore" is ""), and "id" under a role
\* the page does not know
LookupPairs ==
    {<<"header", "id">>, <<"header", "supplier_id">>, <<"item", "id">>,
     <<"line", "id">>, <<"account", "id">>, <<"account", "supplier_id">>,
     <<"ignore", "">>, <<"legacy", "id">>}

\* collections as allRules holds them (renderRules has sorted them), varying
\* in role and destination field
LookupCollections ==
    {sortRules([i \in DOMAIN f |->
                   UnitRule(ToString(i), "A", f[i][1], f[i][2], "CSV")]) :
        f \in ListsOf(LookupPairs)}

\* collections varying in the source kinds
CandidateCollections ==
    {[i \in DOMAIN f |-> UnitRule(ToString(i), "A", "header", "id", f[i])] :
        f \in ListsOf({"", "CSV", "Link", "CSV,Link"})}

\* GET bodies varying in role and rule name
SortInputs ==
    {[i \in DOMAIN f |-> UnitRule(ToString(i), f[i][2], f[i][1], "id", "CSV")] :
        f \in ListsOf(UnitRoles \X {"A", "B"})}

\* the contents the auxiliary editor of a row may have
UnitEditors ==
    {[kind |-> "-", options |-> <<>>, value |-> ""],
     [kind |-> "CSV Column", options |-> <<>>, value |-> ""]}
    \cup {[kind |-> "link-source-select", options |-> <<"1", "2">>, value |-> v] :
             v \in {"", "1", "2"}}
    \cup {[kind |-> k, options |-> <<>>, value |-> v] :
             k \in {"formula-input", "text-override-input"}, v \in {"", "{A}"}}

\* rows as getRulePayload may find them; handleSourceChange calls it before
\* the editor is rebuilt, so every editor occurs with every selection
UnitRows ==
    {[id                     |-> id,
      rule_name              |-> "A",
      field_role             |-> "header",
      destination_field      |-> "id",
      destination_options    |-> ROLE_DESTINATION_FIELDS["header"],
      source_type_options    |-> sel,
      editor                 |-> ed,
      default_transformation |-> "",
      is_required            |-> req,
      is_hidden              |-> FALSE,
      is_base_rule           |-> base,
      disabled               |-> [is_base_rule |-> FALSE, is_required |-> FALSE,
                                  other |-> FALSE, editor |-> FALSE]] :
        id \in {"1", "new_1"}, sel \in SourceTypeSelections, ed \in UnitEditors,
        req \in BOOLEAN, base \in BOOLEAN}

\* the collections getRulePayload is applied with: the link picker of the
\* row offers the rules 1 and 2
PayloadCollections ==
    {<<>>,
     <<UnitRule("1", "A", "header", "id", "CSV")>>,
     <<UnitRule("1", "A", "line", "total_amount", "CSV"),
       UnitRule("2", "B", "ignore", "", "CSV")>>}

\* source_type_options of a persisted record: every list of the four kinds
\* and of one the page does not know
PersistedSourceTypes ==
    {join(SelectSeq(<<"CSV", "CSV Formula", "Text Override", "Link", "Legacy">>,
                    LAMBDA t : t \in picked)) :
        picked \in SUBSET {"CSV", "CSV Formula", "Text Override", "Link", "Legacy"}}

applyGetRulePayload ==
    /\ call.fn = "none"
    /\ \E rules \in PayloadCollections, row \in UnitRows :
          call' = [fn |-> "getRulePayload", rules |-> rules, row |-> row,
                   ret |-> getRulePayload(rules, row)]
    /\ UNCHANGED pageVars

applyCreateRuleRow ==
    /\ call.fn = "none"
    /\ \E kinds \in PersistedSourceTypes, isBase \in BOOLEAN :
          LET rule == [LineRule EXCEPT !.source_type_options = kinds,
                                       !.is_base_rule = isBase]
          IN  call' = [fn |-> "createRuleRow", rule |-> rule, isBase |-> isBase,
                       kinds |-> {t \in {"CSV", "CSV Formula", "Text Override",
                                         "Link", "Legacy"} :
                                     ArrIncludes(split(kinds), t)},
                       ret |-> createRuleRow(<<LineRule, HeaderRule>>, rule, isBase)]
    /\ UNCHANGED pageVars

applyPopulateLinkSourceDropdown ==
    /\ call.fn = "none"
    /\ \E rules \in CandidateCollections,
          currentRowId \in {"1", "2", "new_1"},
          currentLinkedRuleId \in {null, undefined, "1", "2"} :
          call' = [fn |-> "populateLinkSourceDropdown", rules |-> rules,
                   currentRowId |-> currentRowId,
                   ret |-> populateLinkSourceDropdown(rules, <<"csv", "link">>,
                               currentLinkedRuleId, currentRowId)]
    /\ UNCHANGED pageVars

\* a row whose link picker shows the rule chosen
linkRow(target) ==
    [(CHOOSE r \in UnitRows : r.id = "new_1") EXCEPT
        !.source_type_options = <<"Link">>,
        !.editor = [kind |-> "link-source-select", options |-> <<target>>,
                    value |-> target]]

\* getRulePayload of a row that links to a rule of the collection, then the
\* reverse lookup of createRuleRow on the pointer of the payload
applyLinkRoundTrip ==
    /\ call.fn = "none"
    /\ \E rules \in LookupCollections : \E t \in DOMAIN rules :
          LET payload == getRulePayload(rules, linkRow(rules[t].id))
          IN  call' = [fn |-> "linkRoundTrip", rules |-> rules,
                       target |-> rules[t],
                       payload |-> payload,
                       ret |-> reverseLookup(rules, payload.link_table_lookup,
                                             payload.link_field_lookup)]
    /\ UNCHANGED pageVars

applyToggleBaseRuleEditability ==
    /\ call.fn = "none"
    /\ \E isBaseRow \in BOOLEAN, isOverrideActive \in BOOLEAN,
          before \in [{"is_base_rule", "is_required", "other", "editor"} -> BOOLEAN] :
          LET row == [createRuleRow(<<>>, LineRule, isBaseRow) EXCEPT
                         !.disabled = before]
          IN  call' = [fn |-> "toggleBaseRuleEditability",
                       isBaseRow |-> isBaseRow,
                       isOverrideActive |-> isOverrideActive,
                       ret |-> toggleBaseRuleEditability(<<row>>, isBaseRow,
                                                         isOverrideActive)]
    /\ UNCHANGED pageVars

applyRenderRules ==
    /\ call.fn = "none"
    /\ \E rules \in SortInputs :
          call' = [fn |-> "renderRules", rules |-> rules,
                   ret |-> renderRules(rules, FALSE)]
    /\ UNCHANGED pageVars

\* a persisted rule with the source kind Link and the pointer getRulePayload
\* emits for the target chosen
LinkingRule(rules, target) ==
    LET p == forwardLookup(rules, target)
    IN  [UnitRule("9", "A", "header", "invoice_number", "Link") EXCEPT
            !.link_table_lookup = p.table,
            !.link_field_lookup = p.field]

\* collections as allRules holds them, one of whose rules links to another
LinkingCollections ==
    UNION {{sortRules(Append(rules, LinkingRule(rules, rules[t].id))) :
               t \in DOMAIN rules} : rules \in LookupCollections}

\* the rule of the collection that links to another
linkingRuleOf(rules) == rules[CHOOSE i \in DOMAIN rules : rules[i].id = "9"]

\* createRuleRow of the linking rule of a collection
applyCreateLinkingRow ==
    /\ call.fn = "none"
    /\ \E rules \in LinkingCollections :
          call' = [fn |-> "createLinkingRow", rules |-> rules,
                   rule |-> linkingRuleOf(rules),
                   ret |-> createRuleRow(rules, linkingRuleOf(rules), FALSE)]
    /\ UNCHANGED pageVars

\* handleSourceChange of the row of the linking rule, in which the operator
\* may have picked another target
applyHandleSourceChange ==
    /\ call.fn = "none"
    /\ \E rules \in LinkingCollections :
          LET created == createRuleRow(rules, linkingRuleOf(rules), FALSE)
          IN  \E v \in {created.editor.options[k] : k \in DOMAIN created.editor.options}
                         \cup {created.editor.value} :
                  LET row == [created EXCEPT !.editor.value = v]
                  IN  call' = [fn |-> "handleSourceChange", rules |-> rules,
                               row |-> row,
                               payload |-> getRulePayload(rules, row),
                               ret |-> handleSourceChange(rules, row)]
    /\ UNCHANGED pageVars

\* renderRules of a GET body one of whose rules has the source kind Link, so
\* that its row carries a link picker; then the picker of a row added by
\* addRow in which the operator selects Link (handleSourceChange)
applyRenderLinkingRules ==
    /\ call.fn = "none"
    /\ \E body \in SortInputs : \E t \in DOMAIN body :
          LET rules == [body EXCEPT ![t].source_type_options = "Link"]
              ret == renderRules(rules, FALSE)
              added == [createRuleRow(ret.rules, newRule(1, FALSE), FALSE)
                           EXCEPT !.source_type_options = <<"Link">>]
          IN  call' = [fn |-> "renderLinkingRules", rules |-> rules,
                       linking |-> rules[t].id,
                       ret |-> ret,
                       added |-> handleSourceChange(ret.rules, added)]
    /\ UNCHANGED pageVars

\* the operator changes the selection of source kinds of a row
\* (handleSourceChange rebuilds the auxiliary editor), picks or types a value
\* in the editor built, and getRulePayload reads the row
applySelectSourceTypes ==
    /\ call.fn = "none"
    /\ \E rules \in PayloadCollections, row \in UnitRows :
          LET rebuilt == handleSourceChange(rules, row)
              values == IF rebuilt.editor.kind = "link-source-select"
                        THEN {rebuilt.editor.options[k] :
                                 k \in DOMAIN rebuilt.editor.options}
                             \cup {rebuilt.editor.value}
                        ELSE IF rebuilt.editor.kind
                                    \in {"formula-input", "text-override-input"}
                        THEN {rebuilt.editor.value, "{A}"}
                        ELSE {rebuilt.editor.value}
          IN  \E v \in values :
                  LET filled == [rebuilt EXCEPT !.editor.value = v]
                  IN  call' = [fn |-> "selectSourceTypes", rules |-> rules,
                               row |-> filled,
                               ret |-> getRulePayload(rules, filled)]
    /\ UNCHANGED pageVars

NextUnit ==
    \/ applyGetRulePayload
    \/ applyCreateRuleRow
    \/ applyPopulateLinkSourceDropdown
    \/ applyLinkRoundTrip
    \/ applyToggleBaseRuleEditability
    \/ applyRenderRules
    \/ applyCreateLinkingRow
    \/ applyHandleSourceChange
    \/ applyRenderLinkingRules
    \/ applySelectSourceTypes

SpecUnit == Init /\ [][NextUnit]_vars

-----------------------------------------------------------------------------
(* Properties of the functions (checked under SpecUnit). *)

\* the source kind that governs a set of kinds: the first of Link, CSV
\* Formula, Text Override, CSV that is in the set, "none" when none is
PriorityKind(kinds) ==
    IF "Link" \in kinds THEN "Link"
    ELSE IF "CSV Formula" \in kinds THEN "CSV Formula"
    ELSE IF "Text Override" \in kinds THEN "Text Override"
    ELSE IF "CSV" \in kinds THEN "CSV"
    ELSE "none"

\* the auxiliary editor that belongs to a source kind
EditorOf(kind) ==
    CASE kind = "Link"          -> "link-source-select"
      [] kind = "CSV Formula"   -> "formula-input"
      [] kind = "Text Override" -> "text-override-input"
      [] kind = "CSV"           -> "CSV Column"
      [] OTHER                  -> "-"

Range(seq) == {seq[i] : i \in DOMAIN seq}

\* C1: the payload getRulePayload builds has is_required = true whenever the
\* is_base_rule checkbox of the row is checked, whatever the is_required
\* checkbox shows; otherwise it has the state of the is_required checkbox.
C1_RequiredForcedForBaseRule ==
    call.fn = "getRulePayload" =>
        call.ret.is_required =
            (IF call.row.is_base_rule THEN TRUE ELSE call.row.is_required)

C1_Witness ==
    /\ call.fn = "getRulePayload"
    /\ call.row.is_base_rule
    /\ ~call.row.is_required
    /\ call.ret.is_required

\* C2: whatever source kinds are selected and whatever the auxiliary editor
\* of the row holds, the payload carries auxiliary data only in the fields of
\* the kind that governs the selection (Link > CSV Formula > Text Override >
\* CSV): every other auxiliary field is null.
C2_OnlyTheGoverningBranchIsPopulated ==
    call.fn = "getRulePayload" =>
        LET kind == PriorityKind(Range(call.row.source_type_options))
        IN  /\ kind # "Link" =>
                  /\ call.ret.link_table_lookup = null
                  /\ call.ret.link_field_lookup = null
            /\ kind # "CSV Formula" => call.ret.formula_template = null
            /\ kind # "Text Override" => call.ret.static_value = null

C2_Witness ==
    /\ call.fn = "getRulePayload"
    /\ Range(call.row.source_type_options) = {"CSV Formula", "Text Override"}
    /\ call.row.editor.kind = "formula-input"
    /\ call.ret.formula_template = "{A}"
    /\ call.ret.static_value = null
    /\ call.ret.link_table_lookup = null

\* C3: the auxiliary editor of a row is the one of the highest-priority
\* source kind of the rule, in the order Link > CSV Formula > Text Override >
\* CSV, and the empty editor when the rule has no kind or only kinds the page
\* does not know.
C3_EditorOfHighestPriorityKind ==
    call.fn = "createRuleRow" =>
        call.ret.editor.kind =
            EditorOf(PriorityKind(call.kinds \ {"Legacy"}))

C3_Witness ==
    /\ call.fn = "createRuleRow"
    /\ call.kinds = {"CSV", "Link"}
    /\ call.ret.editor.kind = "link-source-select"

\* C4: the candidates the link picker offers for the rule being edited never
\* include that rule and never include a rule whose source kinds include
\* Link.
C4_CandidatesExcludeSelfAndLinkRules ==
    call.fn = "populateLinkSourceDropdown" =>
        \A k \in DOMAIN call.ret.options :
            /\ call.ret.options[k] # call.currentRowId
            /\ \E j \in DOMAIN call.rules :
                  call.rules[j].id = call.ret.options[k]
            /\ \A j \in DOMAIN call.rules :
                  call.rules[j].id = call.ret.options[k] =>
                      ~ArrIncludes(split(call.rules[j].source_type_options), "Link")

C4_Witness ==
    /\ call.fn = "populateLinkSourceDropdown"
    /\ call.currentRowId = "1"
    /\ Len(call.rules) = 3
    /\ call.rules[2].source_type_options = "CSV,Link"
    /\ call.ret.options = <<"3">>

\* C5: for every rule r of the collection whose (field_role,
\* destination_field) pair no other rule shares, the pointer getRulePayload
\* emits for the target r, resolved by the reverse lookup of createRuleRow,
\* yields the id of r.
C5_RoundTrip ==
    call.fn = "linkRoundTrip" =>
        ((\A j \in DOMAIN call.rules :
              (/\ call.rules[j].field_role = call.target.field_role
               /\ call.rules[j].destination_field = call.target.destination_field)
              => call.rules[j].id = call.target.id)
         => call.ret = call.target.id)

\* C6: toggleBaseRuleEditability disables every field of a base row when the
\* override is off; with the override on it enables every field of a base
\* row except is_required; in an additional row every field is enabled,
\* is_base_rule only when the override is on.
C6_EditabilityMatrix ==
    call.fn = "toggleBaseRuleEditability" =>
        LET d == call.ret[1].disabled
        IN  IF call.isBaseRow /\ ~call.isOverrideActive
            THEN d.is_base_rule /\ d.is_required /\ d.other /\ d.editor
            ELSE IF call.isBaseRow
            THEN d.is_required /\ ~d.is_base_rule /\ ~d.other /\ ~d.editor
            ELSE /\ ~d.is_required /\ ~d.other /\ ~d.editor
                 /\ d.is_base_rule = ~call.isOverrideActive

C6_Witness ==
    /\ call.fn = "toggleBaseRuleEditability"
    /\ call.isBaseRow
    /\ call.isOverrideActive
    /\ call.ret[1].disabled.is_required
    /\ ~call.ret[1].disabled.other

\* the place of a role in header < item < line < account < ignore; every
\* other role comes after these
RoleRank(role) ==
    LET known == <<"header", "item", "line", "account", "ignore">>
    IN  IF \E k \in DOMAIN known : known[k] = role
        THEN CHOOSE k \in DOMAIN known : known[k] = role
        ELSE Len(known) + 1

NameRank(name) == CHOOSE k \in DOMAIN Collation : Collation[k] = name

InCanonicalOrder(rules) ==
    \A i, j \in DOMAIN rules :
        i < j =>
            \/ RoleRank(rules[i].field_role) < RoleRank(rules[j].field_role)
            \/ /\ RoleRank(rules[i].field_role) = RoleRank(rules[j].field_role)
               /\ NameRank(rules[i].rule_name) <= NameRank(rules[j].rule_name)

RoleAndName(rules) ==
    [i \in DOMAIN rules |-> <<rules[i].field_role, rules[i].rule_name>>]

\* C7: renderRules orders a collection ascending by role (header < item <
\* line < account < ignore, unknown roles last), then by rule_name; it keeps
\* every rule, and the rows follow that order; [line/B, header/A, line/A]
\* becomes [header/A, line/A, line/B].
C7_CanonicalOrder ==
    call.fn = "renderRules" =>
        /\ InCanonicalOrder(call.ret.rules)
        /\ Len(call.ret.rules) = Len(call.rules)
        /\ Range(call.ret.rules) = Range(call.rules)
        /\ call.ret.baseRows = <<>>
        /\ [i \in DOMAIN call.ret.additionalRows |-> call.ret.additionalRows[i].id]
               = [i \in DOMAIN call.ret.rules |-> call.ret.rules[i].id]
        /\ RoleAndName(call.rules) = << <<"line", "B">>, <<"header", "A">>, <<"line", "A">> >>
               => RoleAndName(call.ret.rules)
                      = << <<"header", "A">>, <<"line", "A">>, <<"line", "B">> >>

C7_Witness ==
    /\ call.fn = "renderRules"
    /\ RoleAndName(call.rules) = << <<"line", "B">>, <<"header", "A">>, <<"line", "A">> >>
    /\ RoleAndName(call.ret.rules) = << <<"header", "A">>, <<"line", "A">>, <<"line", "B">> >>

-----------------------------------------------------------------------------
(* Properties of the page (checked under Spec). *)

Transient(id) == Truthy(id) /\ startsWith(id, "new_")

RuleIds(rules) == {rules[i].id : i \in DOMAIN rules}

\* C8: adding an unsaved rule and deleting it issue no external call at all
\* (so no DELETE and no POST), and once it is deleted the rule is neither in
\* the rule collection nor among the rows; a POST is only issued by
\* saveAllChanges, and deleteRule issues a DELETE only for the id of a
\* persisted rule.
C8_TransientRuleIsDeletedLocally ==
    [][LET added == "new_" \o ToString(newRuleCounter')
       IN  /\ newRuleCounter' # newRuleCounter =>
                 /\ issued' = issued /\ deletes' = deletes /\ gets' = gets
                 /\ added \in rowIds(baseRows' \o additionalRows')
                 /\ added \notin RuleIds(allRules')
           /\ (deleteRule /\ Transient(ruleToDeleteId)) =>
                 /\ issued' = issued /\ deletes' = deletes /\ gets' = gets
                 /\ ruleToDeleteId \notin rowIds(baseRows' \o additionalRows')
                 /\ ruleToDeleteId \notin RuleIds(allRules')
           /\ issued'.POST # issued.POST => Len(batches') = Len(batches) + 1
           /\ issued'.DELETE # issued.DELETE =>
                 /\ Truthy(ruleToDeleteId) /\ ~Transient(ruleToDeleteId)
                 /\ issued'.DELETE = issued.DELETE + 1
                 /\ deletes' = Append(deletes, [id |-> ruleToDeleteId])
           /\ \A k \in DOMAIN deletes' : ~Transient(deletes'[k].id)
      ]_vars

C8_Witness ==
    /\ newRuleCounter = 1
    /\ messages # <<>>
    /\ messages[1].text = "New unsaved rule removed."
    /\ "new_1" \notin rowIds(allRows)
    /\ "new_1" \notin RuleIds(allRules)
    /\ ruleToDeleteId = null
    /\ issued.POST = 0
    /\ issued.DELETE = 0

\* the calls of all invocations of saveAllChanges with a given outcome
CallsWith(status) ==
    {bc \in UNION {{<<b, c>> : c \in DOMAIN batches[b].calls} : b \in DOMAIN batches} :
        batches[bc[1]].calls[bc[2]].status = status}

MessagesStarting(prefix) ==
    {i \in DOMAIN messages : startsWith(messages[i].text, prefix)}

MessagesSaying(text) == {i \in DOMAIN messages : messages[i].text = text}

\* the calls of batch b whose outcome changes in the step
SettledInStep(b) ==
    {c \in DOMAIN batches[b].calls :
        batches'[b].calls[c].status # batches[b].calls[c].status}

\* C9: when saveAllChanges has saved N rows and k of the calls failed, in
\* whatever order the calls completed, the success count is N - k (the
\* success message carries it; none is shown when it is 0) and k error
\* messages have been shown; the message of a failed call names the rule_name
\* its row has at that moment; the failure of a call leaves every other call
\* of the batch as it is, and every row has got its call.
C9_BatchSaveReportsEachOutcome ==
    /\ [](/\ Cardinality(MessagesStarting("Error saving \""))
                = Cardinality(CallsWith("failed"))
          /\ \A b \in DOMAIN batches :
                LET N == Len(batches[b].calls)
                    k == countOf(batches[b].calls, "failed")
                IN  /\ batches[b].successCount = countOf(batches[b].calls, "ok")
                    /\ batches[b].done => batches[b].successCount = N - k
          /\ \A n \in 0..(Len(allRows) + MaxUserEvents + 2) :
                Cardinality(MessagesSaying(
                    "Successfully saved " \o ToString(n) \o " rule(s)."))
                = IF n = 0 THEN 0
                  ELSE Cardinality({b \in DOMAIN batches :
                           /\ batches[b].done
                           /\ Len(batches[b].calls)
                                  - countOf(batches[b].calls, "failed") = n}))
    /\ [][/\ Len(batches') = Len(batches) + 1 =>
                /\ Len(batches'[Len(batches')].calls) = Len(allRows)
                /\ issued'.POST + issued'.PUT
                       = issued.POST + issued.PUT + Len(allRows)
          /\ \A b \in DOMAIN batches :
                /\ b \in DOMAIN batches'
                /\ DOMAIN batches'[b].calls = DOMAIN batches[b].calls
                /\ Cardinality(SettledInStep(b)) <= 1
                /\ \A c \in SettledInStep(b) :
                      /\ batches[b].calls[c].status = "pending"
                      /\ batches'[b].calls[c].status = "failed" =>
                            /\ Len(messages') >= Len(messages) + 1
                            /\ \A i \in DOMAIN allRows :
                                  (/\ batches[b].calls[c].attached
                                   /\ allRows[i].id = batches[b].calls[c].rowId)
                                  => startsWith(
                                         messages'[Len(messages') - Len(messages)].text,
                                         "Error saving \"" \o allRows[i].rule_name \o "\": ")
         ]_vars

C9_Witness ==
    \E b \in DOMAIN batches :
        /\ batches[b].done
        /\ Len(batches[b].calls) = 3
        /\ [c \in 1..3 |-> batches[b].calls[c].status] = <<"ok", "failed", "ok">>
        /\ batches[b].successCount = 2
        /\ Cardinality(MessagesStarting("Error saving \"B\": ")) = 1
        /\ messages[1].text = "Successfully saved 2 rule(s)."

\* the batches that are done after the step and were not before
NewlyDone ==
    {b \in DOMAIN batches' :
        batches'[b].done /\ (b \notin DOMAIN batches \/ ~batches[b].done)}

\* C10: a batch of saveAllChanges issues one GET of the collection: in the
\* step in which its last call settles (at once when there is no row), not
\* while a call is pending, never a second one, and whether or not a call
\* succeeded.
C10_OneRefetchAfterAllSettled ==
    [][/\ batches' # batches =>
             issued'.GET = issued.GET + Cardinality(NewlyDone)
       /\ Cardinality(NewlyDone) <= 1
       /\ \A b \in DOMAIN batches' : batches'[b].done = settled(batches'[b].calls)
       /\ \A b \in DOMAIN batches : batches[b].done => batches'[b].done
      ]_vars

C10_Witness ==
    \E b \in DOMAIN batches :
        /\ batches[b].done
        /\ Len(batches[b].calls) = 2
        /\ batches[b].successCount = 0
        /\ \A c \in DOMAIN batches[b].calls : batches[b].calls[c].status = "failed"
        /\ issued.GET = 2

\* the fields of a payload that hold text
TextFields ==
    {"id", "rule_name", "field_role", "destination_field",
     "source_type_options", "rule_type", "link_table_lookup",
     "link_field_lookup", "formula_template", "static_value",
     "default_transformation"}

\* C11: saveAllChanges sends every row whose id is a new_* marker as a POST
\* to the collection with id null in the payload, and every row with a
\* persisted id as a PUT to the URL of that id with that id in the payload;
\* no URL and no text of a payload of a call in flight holds a new_* marker.
C11_TransientIsPostedPersistedIsPut ==
    [][/\ Len(batches') = Len(batches) + 1 =>
             LET calls == batches'[Len(batches')].calls
             IN  \A i \in DOMAIN allRows :
                     /\ i \in DOMAIN calls
                     /\ IF Transient(allRows[i].id)
                        THEN /\ calls[i].method = "POST"
                             /\ calls[i].url = "/admin/mapping_rules/api/metadata"
                             /\ calls[i].payload.id = null
                        ELSE /\ calls[i].method = "PUT"
                             /\ calls[i].url = "/admin/mapping_rules/api/metadata/"
                                                  \o allRows[i].id
                             /\ calls[i].payload.id = allRows[i].id
       /\ \A b \in DOMAIN batches' :
             ~batches'[b].done =>
                 \A c \in DOMAIN batches'[b].calls :
                     /\ ~StrIncludes(batches'[b].calls[c].url, "new_")
                     /\ \A f \in TextFields :
                           ~StrIncludes(batches'[b].calls[c].payload[f], "new_")
      ]_vars

C11_Witness ==
    \E b \in DOMAIN batches :
        /\ ~batches[b].done
        /\ Len(batches[b].calls) = 3
        /\ batches[b].calls[1].method = "PUT"
        /\ batches[b].calls[1].url = "/admin/mapping_rules/api/metadata/2"
        /\ batches[b].calls[1].payload.id = "2"
        /\ batches[b].calls[3].rowId = "new_1"
        /\ batches[b].calls[3].method = "POST"
        /\ batches[b].calls[3].url = "/admin/mapping_rules/api/metadata"
        /\ batches[b].calls[3].payload.id = null

\* the rule of payload q is one the link pointer of payload p designates
PointsAt(p, q) ==
    /\ Truthy(p.link_table_lookup)
    /\ Truthy(p.link_field_lookup)
    /\ q.destination_field = p.link_field_lookup
    /\ <<q.field_role, p.link_table_lookup>> \in
           {<<"header", "supplier_invoice_headers">>,
            <<"item", "supplier_invoice_items">>,
            <<"line", "supplier_invoice_lines">>,
            <<"account", "supplier_account">>}

HasLinkKind(p) == "Link" \in Range(split(p.source_type_options))

\* C12: among the rules one saveAllChanges sends, no rule whose source kinds
\* include Link has a link pointer that resolves (to the first rule it
\* designates) to that rule itself or to a rule whose source kinds include
\* Link.
C12_NoSelfLinkNoLinkChain ==
    \A b \in DOMAIN batches :
        ~batches[b].done =>
            LET saved == [c \in DOMAIN batches[b].calls |-> batches[b].calls[c].payload]
            IN  \A c \in DOMAIN saved :
                    LET hits == {d \in DOMAIN saved : PointsAt(saved[c], saved[d])}
                    IN  (HasLinkKind(saved[c]) /\ hits # {}) =>
                            LET target == CHOOSE d \in hits : \A e \in hits : d <= e
                            IN  /\ target # c
                                /\ ~HasLinkKind(saved[target])

\* the id of the first rule of the collection the pointer of p designates,
\* "" (no selection) when there is none
Resolved(rules, p) ==
    LET hits == {j \in DOMAIN rules : PointsAt(p, rules[j])}
    IN  IF hits = {} THEN ""
        ELSE rules[CHOOSE j \in hits : \A k \in hits : j <= k].id

\* C13: the link picker createRuleRow builds for a loaded record and the one
\* handleSourceChange rebuilds after a change of the row both preselect the
\* first rule of the collection whose role maps to the link table of the row
\* and whose destination_field is its link field, and select nothing when
\* there is no such rule.
C13_PreselectionResolvesThePointer ==
    /\ (call.fn = "createLinkingRow" /\ call.ret.editor.kind = "link-source-select")
           => call.ret.editor.value = Resolved(call.rules, call.rule)
    /\ (call.fn = "handleSourceChange" /\ call.ret.editor.kind = "link-source-select")
           => call.ret.editor.value = Resolved(call.rules, call.payload)

\* the editability policy: what is disabled in a row of the given
\* classification under the given override
Policy(isBaseRule, override) ==
    [is_base_rule |-> ~override,
     is_required  |-> isBaseRule,
     other        |-> isBaseRule /\ ~override,
     editor       |-> isBaseRule /\ ~override]

\* C14: in every state, what is disabled in each row on the page is what
\* the editability policy gives for the current classification of the row
\* (its is_base_rule flag) and the current override.
C14_EveryRowFollowsThePolicy ==
    \A i \in DOMAIN allRows :
        allRows[i].disabled = Policy(allRows[i].is_base_rule, superAdmin)

\* the text an error message carries: the message of the server when its
\* answer has one, the generic text when it has none, the text of the
\* rejection when the call was rejected
ReportedError(failure, generic) ==
    IF failure.kind = "rejected" THEN failure.message
    ELSE IF failure.message = null THEN generic
    ELSE failure.message

\* C15: a failed GET of fetchRules leaves the rule collection and the rows as
\* they are and issues no call; a failed DELETE of deleteRule leaves the
\* collection as it is and issues no GET; each shows exactly one error
\* message, with the message of the server when there is one and the generic
\* text of the operation otherwise.
C15_FailedCallKeepsTheCollection ==
    [][/\ \A f \in Failures :
             fetchRulesFailWith(f) =>
                 /\ allRules' = allRules
                 /\ baseRows' = baseRows /\ additionalRows' = additionalRows
                 /\ issued' = issued
                 /\ messages' = <<[type |-> "error",
                                   text |-> "Error: " \o
                                       ReportedError(f, "Failed to fetch rules")]>>
                                \o messages
       /\ \A k \in DOMAIN deletes : \A f \in Failures :
             deleteRuleFailWith(k, f) =>
                 /\ allRules' = allRules
                 /\ baseRows' = baseRows /\ additionalRows' = additionalRows
                 /\ issued' = issued /\ gets' = gets
                 /\ messages' = <<[type |-> "error",
                                   text |-> "Error: " \o
                                       ReportedError(f, "Failed to delete rule")]>>
                                \o messages
      ]_vars

C15_Witness ==
    /\ Len(allRules) = 2
    /\ messages # <<>>
    /\ messages[1] = [type |-> "error", text |-> "Error: denied"]
    /\ issued.DELETE = 1
    /\ issued.GET = 1
    /\ deletes = <<>>
    /\ gets = 0

\* the only unsaved rule of the session is on the page and every attempt to
\* save it has failed, in batches that are all finished
FirstRuleFailedToSave ==
    /\ newRuleCounter = 1
    /\ "new_1" \in rowIds(allRows)
    /\ \A b \in DOMAIN batches : batches[b].done
    /\ \E b \in DOMAIN batches : \E c \in DOMAIN batches[b].calls :
          batches[b].calls[c].method = "POST"
    /\ \A b \in DOMAIN batches : \A c \in DOMAIN batches[b].calls :
          batches[b].calls[c].method = "POST" => batches[b].calls[c].status = "failed"

\* C16: a row whose save failed in a batch, here the unsaved rule new_1
\* that has never been persisted, stays on the page with its values when the
\* calls in flight complete (the re-fetch of the batch among them): only the
\* operator removes or changes it.
C16_FailedRowStaysMaterialized ==
    [][(FirstRuleFailedToSave /\ userEvents' = userEvents) =>
           \E i \in DOMAIN allRows : \E j \in DOMAIN allRows' :
               /\ allRows[i].id = "new_1"
               /\ allRows'[j] = allRows[i]
      ]_vars

\* C17: a successful fetch leaves in the rule collection exactly the rules
\* of its response (in canonical order), whatever the collection held and
\* whatever rows were on the page; no other step changes the collection, and
\* no unsaved rule is ever in it.
C17_CollectionIsTheLastResponse ==
    [][/\ \A response \in Responses :
             fetchRulesOkWith(response) =>
                 /\ Len(allRules') = Len(response)
                 /\ Range(allRules') = Range(response)
       /\ allRules' # allRules => \E response \in Responses : fetchRulesOkWith(response)
       /\ \A i \in DOMAIN allRules' : ~Transient(allRules'[i].id)
      ]_vars

C17_Witness ==
    /\ allRules = <<>>
    /\ gets = 0
    /\ newRuleCounter = 1
    /\ \E b \in DOMAIN batches :
          /\ Len(batches[b].calls) = 3
          /\ batches[b].calls[1].method = "PUT"
          /\ batches[b].calls[3].method = "POST"

\* the rows of a table are those of the given rules, one for each, in their
\* order, with the values of the rules
RowsOf(rows, rules) ==
    /\ Len(rows) = Len(rules)
    /\ \A i \in DOMAIN rules :
          /\ rows[i].id = rules[i].id
          /\ rows[i].rule_name = rules[i].rule_name
          /\ rows[i].field_role = rules[i].field_role
          /\ rows[i].destination_field = rules[i].destination_field
          /\ Range(rows[i].source_type_options)
                 = Range(split(rules[i].source_type_options))
          /\ rows[i].is_base_rule = rules[i].is_base_rule
          /\ rows[i].is_hidden = rules[i].is_hidden

\* C18: in whatever order overlapping fetches complete and whatever the
\* operator did meanwhile, when a successful fetch has completed the base
\* table holds exactly the rows of the base rules of the collection and the
\* additional table exactly the rows of its other rules: one row for each
\* rule and no row of an earlier collection or of an unsaved rule.
C18_RowsAreThoseOfTheCollection ==
    [][(\E response \in Responses : fetchRulesOkWith(response)) =>
           /\ RowsOf(baseRows', SelectSeq(allRules', LAMBDA r : r.is_base_rule))
           /\ RowsOf(additionalRows', SelectSeq(allRules', LAMBDA r : ~r.is_base_rule))
      ]_vars

C18_Witness ==
    /\ newRuleCounter = 1
    /\ issued.GET = 2
    /\ gets = 1
    /\ Len(allRules) = 2
    /\ rowIds(baseRows) = {"2"}
    /\ rowIds(additionalRows) = {"1"}

\* the rules of a collection that the options of a picker denote, in the
\* order of the options
Denoted(rules, options) ==
    [i \in DOMAIN options |->
        rules[CHOOSE k \in DOMAIN rules : rules[k].id = options[i]]]

\* the places in a collection of the rules the options of a picker denote
Places(rules, options) ==
    [i \in DOMAIN options |->
        CHOOSE k \in DOMAIN rules : rules[k].id = options[i]]

LinkPickers(rows) ==
    {rows[i].editor : i \in {k \in DOMAIN rows :
                                rows[k].editor.kind = "link-source-select"}}

\* C19: after a fetch, the candidates of every link picker - the one of a
\* row rendered from the response and the one built when the operator
\* selects Link in an added row - are listed by ascending role and then by
\* ascending rule_name, which is the order the rules have in the collection.
C19_CandidatesInCanonicalOrder ==
    call.fn = "renderLinkingRules" =>
        \A picker \in LinkPickers(call.ret.additionalRows) \cup {call.added.editor} :
            /\ picker.kind = "link-source-select"
            /\ InCanonicalOrder(Denoted(call.ret.rules, picker.options))
            /\ \A i, j \in DOMAIN picker.options :
                  i < j => Places(call.ret.rules, picker.options)[i]
                               < Places(call.ret.rules, picker.options)[j]

\* the body [line/B (linking), line/A, header/A]: the picker of the first
\* rule lists header/A, then line/A
C19_Witness ==
    /\ call.fn = "renderLinkingRules"
    /\ RoleAndName(call.rules) = << <<"line", "B">>, <<"line", "A">>, <<"header", "A">> >>
    /\ call.linking = "1"
    /\ \E picker \in LinkPickers(call.ret.additionalRows) :
          picker.options = <<"3", "2">>
    /\ call.added.editor.options = <<"3", "2">>

\* C20: whatever kinds are selected in a row, the auxiliary data of the
\* payload are read from the editor that updateSourceDetailsDisplay built
\* for the selection and from no other: the pointer of the rule picked in a
\* link picker, the text of a formula editor as formula_template, the text
\* of a static text editor as static_value, and nothing beside a column
\* label or an empty container.
C20_PayloadReadsTheEditorDisplayed ==
    call.fn = "selectSourceTypes" =>
        LET editor == call.row.editor
            p == call.ret
            pointer == forwardLookup(call.rules, editor.value)
        IN  /\ editor.kind \in {"link-source-select", "formula-input",
                                "text-override-input", "CSV Column", "-"}
            /\ <<p.link_table_lookup, p.link_field_lookup>> =
                   IF editor.kind = "link-source-select"
                   THEN <<pointer.table, pointer.field>> ELSE <<null, null>>
            /\ p.formula_template =
                   IF editor.kind = "formula-input" /\ editor.value # ""
                   THEN editor.value ELSE null
            /\ p.static_value =
                   IF editor.kind = "text-override-input" /\ editor.value # ""
                   THEN editor.value ELSE null

\* all four kinds selected: the link picker is built and the payload carries
\* the pointer of the rule picked in it
C20_Witness ==
    /\ call.fn = "selectSourceTypes"
    /\ call.row.source_type_options = ALL_SOURCE_TYPES
    /\ call.row.editor.kind = "link-source-select"
    /\ call.row.editor.value = "1"
    /\ call.ret.link_table_lookup = "supplier_invoice_lines"
    /\ call.ret.link_field_lookup = "total_amount"

\* a run of deleteRule ends in the step: the local removal of an unsaved
\* rule, or the completion of a DELETE, successful or failed
DeleteRuleFinishes ==
    \/ deleteRule /\ Transient(ruleToDeleteId)
    \/ \E k \in DOMAIN deletes : deleteRuleOk(k) \/ deleteRuleFail(k)

\* C21: deleteRule invoked while no delete target is set issues no call and
\* changes nothing; when a run of deleteRule with a target ends - an unsaved
\* rule removed locally, a DELETE answered with success or with a failure -
\* the target is cleared; and only a click on a Delete button sets a target,
\* so that deleteRule deletes nothing until the operator clicks again.
C21_DeleteTargetIsClearedAndNeeded ==
    [][/\ (deleteRule /\ ~Truthy(ruleToDeleteId)) =>
              UNCHANGED <<allRules, newRuleCounter, ruleToDeleteId, baseRows,
                          additionalRows, superAdmin, modalOpen, messages,
                          gets, batches, deletes, issued, call>>
       /\ DeleteRuleFinishes => ruleToDeleteId' = null /\ ~modalOpen'
       /\ (deleteRule /\ Transient(ruleToDeleteId)) =>
              /\ issued' = issued
              /\ deletes' = deletes
              /\ ruleToDeleteId \notin rowIds(baseRows' \o additionalRows')
       /\ (Truthy(ruleToDeleteId') /\ ruleToDeleteId' # ruleToDeleteId) =>
              \E tbl \in Tables : \E i \in DOMAIN rowsOf(tbl) : clickDelete(tbl, i)
       /\ issued'.DELETE # issued.DELETE =>
              /\ Truthy(ruleToDeleteId)
              /\ deleteRule
      ]_vars

\* a DELETE was issued for the rule clicked and has been answered with
\* success: the target is cleared and the dialog closed
C21_Witness ==
    /\ issued.DELETE = 1
    /\ deletes = <<>>
    /\ MessagesSaying("Rule deleted successfully!") # {}
    /\ ruleToDeleteId = null
    /\ ~modalOpen

====
